---- MODULE Spec2Model ----
(***************************************************************************)
(* A model of route53/resource_record_set.py: one ResourceRecordSet        *)
(* instance (of any of the ten record-type classes), the fields callers    *)
(* assign, the _initial_vals snapshot, and the calls the instance makes on *)
(* its Route53Connection and ChangeSet collaborators.                      *)
(***************************************************************************)
EXTENDS Integers, Sequences, FiniteSets, TLC

VARIABLES
    rrset_type,     \* the class attribute rrset_type of the instance's class
    attrs,          \* the instance attributes: attribute name -> Python value
    initial_vals,   \* self._initial_vals: a dict, kept in insertion order
    heap,           \* the list objects alive: reference -> sequence of items
    ctor,           \* history: constructor arguments and fields at construction
    nAssign,        \* history: assignments and in-place edits made so far
    last            \* the last operation: its name, outcome, collaborator calls

vars == <<rrset_type, attrs, initial_vals, heap, ctor, nAssign, last>>

\* ------------------------------------------------------------------ bounds
MaxTtl == 1        \* integer ttl arguments are 0..MaxTtl
MaxRecords == 1    \* a records list holds at most this many items
MaxAssign == 1     \* assignments and in-place edits explored per instance

\* ----------------------------------------------------------- Python values
\* Every Python value is a record of one shape; t is the value's type.  A
\* str is the tuple of its characters, a list is a reference into heap.
PyNone == [t |-> "NoneType", i |-> 0, s |-> <<>>, b |-> FALSE]
PyInt(n) == [t |-> "int", i |-> n, s |-> <<>>, b |-> FALSE]
PyStr(cs) == [t |-> "str", i |-> 0, s |-> cs, b |-> FALSE]
PyBool(x) == [t |-> "bool", i |-> 0, s |-> <<>>, b |-> x]
PyList(ref) == [t |-> "list", i |-> ref, s |-> <<>>, b |-> FALSE]
PyObj(cls, id) == [t |-> cls, i |-> id, s |-> <<>>, b |-> FALSE]

\* The instance itself, as the argument `self` of add_change.
PySelf == PyObj("ResourceRecordSet", 0)

\* Python truth value testing, as `ttl` in `if ttl` and the operands of `or`.
Truthy(h, v) ==
    CASE v.t = "NoneType" -> FALSE
      [] v.t = "int" -> v.i # 0
      [] v.t = "str" -> Len(v.s) > 0
      [] v.t = "bool" -> v.b
      [] v.t = "list" -> Len(h[v.i]) > 0
      [] OTHER -> TRUE

\* Python `a or b`: the first operand when it is truthy, else the second.
PyOr(h, a, b) == IF Truthy(h, a) THEN a ELSE b

DigitVal ==
    ("0" :> 0) @@ ("1" :> 1) @@ ("2" :> 2) @@ ("3" :> 3) @@ ("4" :> 4) @@
    ("5" :> 5) @@ ("6" :> 6) @@ ("7" :> 7) @@ ("8" :> 8) @@ ("9" :> 9)

RECURSIVE ParseDigits(_)
ParseDigits(cs) ==
    IF cs = <<>> THEN 0
    ELSE 10 * ParseDigits(SubSeq(cs, 1, Len(cs) - 1)) + DigitVal[cs[Len(cs)]]

\* int(v) for the arguments the constructor converts: an int is itself, a
\* bool is 0 or 1, a str of decimal digits is the number it spells.
PyIntOf(v) ==
    CASE v.t = "int" -> v.i
      [] v.t = "bool" -> IF v.b THEN 1 ELSE 0
      [] v.t = "str" -> ParseDigits(v.s)

\* The outcome of a call: a returned value or a raised exception.
Return(v) == [kind |-> "return", val |-> v, exc |-> ""]
Raise(e) == [kind |-> "raise", val |-> PyNone, exc |-> e]

\* A value together with the items it holds when it is a list.
Deep(h, v) ==
    IF v.t = "list" THEN [val |-> PyList(0), items |-> h[v.i]]
    ELSE [val |-> v, items |-> <<>>]

\* ------------------------------------------------------------------- dicts
\* A dict is the sequence of its (key, value) entries in insertion order.
DictKeys(d) == {d[n].key : n \in 1..Len(d)}
DictGet(d, k) == d[CHOOSE n \in 1..Len(d) : d[n].key = k].val

\* dict.update(other): an existing key keeps its place and takes the new
\* value, a new key is appended.
DictUpdate(d, other) ==
    [n \in 1..Len(d) |->
        IF d[n].key \in DictKeys(other)
        THEN [key |-> d[n].key, val |-> DictGet(other, d[n].key)]
        ELSE d[n]]
    \o SelectSeq(other, LAMBDA e : e.key \notin DictKeys(d))

\* ----------------------------------------------------------------- inputs
RRsetTypes == {"A", "AAAA", "CNAME", "MX", "NS", "PTR", "SOA", "SPF", "SRV", "TXT"}

Connections == {PyObj("Route53Connection", 1), PyObj("Route53Connection", 2)}
ZoneIds == {PyStr(<<"Z", "1">>), PyStr(<<"Z", "2">>)}
Names == {PyStr(<<"a", ".">>), PyStr(<<"b", ".">>)}

\* The connection that builds the instance, and the zone and the name it is
\* built with; callers may later assign any of Connections, ZoneIds, Names.
CtorConnections == {PyObj("Route53Connection", 1)}
CtorZoneIds == {PyStr(<<"Z", "1">>)}
CtorNames == {PyStr(<<"a", ".">>)}

\* ttl arguments: None, an integer, or a numeric string.
TtlArgs ==
    {PyNone} \cup {PyInt(n) : n \in 0..MaxTtl}
    \cup {PyStr(<<"0">>), PyStr(<<"1", "2">>)}

RecordItems == {PyStr(<<"r">>)}
RECURSIVE SeqsUpTo(_, _)
SeqsUpTo(S, n) ==
    IF n = 0 THEN {<<>>}
    ELSE SeqsUpTo(S, n - 1)
         \cup {Append(q, x) : q \in {r \in SeqsUpTo(S, n - 1) : Len(r) = n - 1}, x \in S}
RecordLists == SeqsUpTo(RecordItems, MaxRecords)

\* alias_hosted_zone_id / alias_dns_name: absent, empty or a name.
AliasVals == {PyNone, PyStr(<<>>), PyStr(<<"e", "l", "b">>)}

\* What the connection collaborator can answer: a result or an error.
HostedZones == {PyObj("HostedZone", 1)}
ChangeResponses == {PyObj("ChangeInfo", 1)}
ConnectionErrors == {"Route53Error", "IOError"}

\* ------------------------------------------------------------ constructors
\* A constructor that tests `ttl is not None` where the code tests `ttl`.
ResourceRecordSet_init_ttl_not_none(h, connection, zone_id, name, ttl, records) ==
    [attrs |->
        [connection |-> connection,
         zone_id |-> zone_id,
         name |-> name,
         ttl |-> IF ttl # PyNone THEN PyInt(PyIntOf(ttl)) ELSE PyNone,
         records |-> records],
     initial_vals |->
        << [key |-> "connection", val |-> connection],
           [key |-> "zone_id", val |-> zone_id],
           [key |-> "name", val |-> name],
           [key |-> "ttl", val |-> ttl],
           [key |-> "records", val |-> records] >>]

\* ResourceRecordSet.__init__: the instance attributes and the snapshot.
ResourceRecordSet_init(h, connection, zone_id, name, ttl, records) ==
    [attrs |->
        [connection |-> connection,
         zone_id |-> zone_id,
         name |-> name,
         ttl |-> IF Truthy(h, ttl) THEN PyInt(PyIntOf(ttl)) ELSE PyNone,
         records |-> records],
     initial_vals |->
        << [key |-> "connection", val |-> connection],
           [key |-> "zone_id", val |-> zone_id],
           [key |-> "name", val |-> name],
           [key |-> "ttl", val |-> ttl],
           [key |-> "records", val |-> records] >>]

\* AResourceRecordSet.__init__: the base constructor, then the alias fields.
AResourceRecordSet_init(h, alias_hosted_zone_id, alias_dns_name, connection, zone_id, name, ttl, records) ==
    LET base == ResourceRecordSet_init(h, connection, zone_id, name, ttl, records)
    IN  [attrs |->
            base.attrs @@
            [alias_hosted_zone_id |-> alias_hosted_zone_id,
             alias_dns_name |-> alias_dns_name],
         initial_vals |->
            DictUpdate(base.initial_vals,
                << [key |-> "alias_hosted_zone_id", val |-> alias_hosted_zone_id],
                   [key |-> "alias_dns_name", val |-> alias_dns_name] >>)]

\* The class named by rrset_type, constructed: only A takes the alias fields.
Construct(ty, h, ahz, adn, connection, zone_id, name, ttl, records) ==
    IF ty = "A"
    THEN AResourceRecordSet_init(h, ahz, adn, connection, zone_id, name, ttl, records)
    ELSE ResourceRecordSet_init(h, connection, zone_id, name, ttl, records)

Init ==
    \E ty \in RRsetTypes, connection \in CtorConnections, zone_id \in CtorZoneIds,
       name \in CtorNames, ttl \in TtlArgs, items \in RecordLists,
       ahz \in AliasVals, adn \in AliasVals :
        /\ ty # "A" => (ahz = PyNone /\ adn = PyNone)
        /\ LET h == (0 :> items)
               obj == Construct(ty, h, ahz, adn, connection, zone_id, name,
                                ttl, PyList(0))
           IN  /\ rrset_type = ty
               /\ heap = h
               /\ attrs = obj.attrs
               /\ initial_vals = obj.initial_vals
               /\ ctor = [args |-> [n \in 1..Len(obj.initial_vals) |->
                                      [key |-> obj.initial_vals[n].key,
                                       val |-> Deep(h, obj.initial_vals[n].val)]],
                          attrs |-> [k \in DOMAIN obj.attrs |-> Deep(h, obj.attrs[k])]]
        /\ nAssign = 0
        /\ last = [op |-> "__init__", outcome |-> Return(PyNone), calls |-> <<>>]

\* ------------------------------------------------- assignments by callers
\* The values a caller may assign to a field other than records.
AssignVals(k) ==
    CASE k = "connection" -> Connections
      [] k = "zone_id" -> ZoneIds
      [] k = "name" -> Names
      [] k = "ttl" -> {PyNone} \cup {PyInt(n) : n \in 0..MaxTtl}
      [] OTHER -> AliasVals

Touched(op) == [op |-> op, outcome |-> Return(PyNone), calls |-> <<>>]

\* rrset.<k> = v
SetAttr ==
    \E k \in DOMAIN attrs \ {"records"} : \E v \in AssignVals(k) :
        /\ nAssign < MaxAssign
        /\ attrs' = [attrs EXCEPT ![k] = v]
        /\ nAssign' = nAssign + 1
        /\ last' = Touched("setattr")
        /\ UNCHANGED <<rrset_type, initial_vals, heap, ctor>>

\* The lists still referenced: the snapshot's and, when kept, the field's.
LiveRefs(keep) == {DictGet(initial_vals, "records").i} \cup keep

\* rrset.records = [...]: a new list object replaces the field's reference.
AssignRecords ==
    \E items \in RecordLists :
        LET live == LiveRefs({})
            ref == CHOOSE r \in 0..Cardinality(live) :
                       r \notin live /\ \A q \in 0..Cardinality(live) : q \notin live => r <= q
        IN  /\ nAssign < MaxAssign
            /\ heap' = [r \in live \cup {ref} |-> IF r = ref THEN items ELSE heap[r]]
            /\ attrs' = [attrs EXCEPT !["records"] = PyList(ref)]
            /\ nAssign' = nAssign + 1
            /\ last' = Touched("setattr")
            /\ UNCHANGED <<rrset_type, initial_vals, ctor>>

\* rrset.records.append(x): the list object is edited in place.
RecordsAppend ==
    \E x \in RecordItems :
        /\ nAssign < MaxAssign
        /\ Len(heap[attrs.records.i]) < MaxRecords
        /\ heap' = [heap EXCEPT ![attrs.records.i] = Append(@, x)]
        /\ nAssign' = nAssign + 1
        /\ last' = Touched("records.append")
        /\ UNCHANGED <<rrset_type, attrs, initial_vals, ctor>>

\* rrset.records.pop(): the list object is edited in place.
RecordsPop ==
    /\ nAssign < MaxAssign
    /\ Len(heap[attrs.records.i]) > 0
    /\ heap' = [heap EXCEPT ![attrs.records.i] = SubSeq(@, 1, Len(@) - 1)]
    /\ nAssign' = nAssign + 1
    /\ last' = Touched("records.pop")
    /\ UNCHANGED <<rrset_type, attrs, initial_vals, ctor>>

\* ------------------------------------------------------------- is_modified
\* `for key, val in self._initial_vals`: iterating a dict yields its keys,
\* and each key, a str, is unpacked into the two targets (key, val).  A str
\* of any length but 2 raises ValueError; a str of length 2 binds key to its
\* first character, and getattr(self, key) finds no such attribute.  The
\* order in which the dict yields its keys does not matter: the first key
\* yielded ends the call, and no key of _initial_vals has length 2.
RECURSIVE is_modified_from(_, _, _, _)
is_modified_from(h, a, iv, n) ==
    IF n > Len(iv) THEN Return(PyBool(FALSE))
    ELSE IF Len(iv[n].key) # 2 THEN Raise("ValueError")
    ELSE Raise("AttributeError")

is_modified(h, a, iv) == is_modified_from(h, a, iv, 1)

IsModified ==
    /\ last' = [op |-> "is_modified", outcome |-> is_modified(heap, attrs, initial_vals),
                calls |-> <<>>]
    /\ UNCHANGED <<rrset_type, attrs, initial_vals, heap, ctor, nAssign>>

\* ----------------------------------------------------- is_alias_record_set
\* A base method that answers as the A class does whenever the instance
\* happens to have no ttl.
ResourceRecordSet_is_alias_record_set_by_ttl(h, a) == Return(PyBool(a.ttl = PyNone))

\* AResourceRecordSet overrides this. Everyone else is False.
ResourceRecordSet_is_alias_record_set(h, a) == Return(PyBool(FALSE))

AResourceRecordSet_is_alias_record_set(h, a) ==
    Return(PyOr(h, a.alias_hosted_zone_id, a.alias_dns_name))

\* Method resolution: AResourceRecordSet overrides, the other classes inherit.
is_alias_record_set(ty, h, a) ==
    IF ty = "A" THEN AResourceRecordSet_is_alias_record_set(h, a)
    ELSE ResourceRecordSet_is_alias_record_set(h, a)

IsAliasRecordSet ==
    /\ last' = [op |-> "is_alias_record_set",
                outcome |-> is_alias_record_set(rrset_type, heap, attrs),
                calls |-> <<>>]
    /\ UNCHANGED <<rrset_type, attrs, initial_vals, heap, ctor, nAssign>>

\* ------------------------------------------------------------ collaborators
\* One call the instance makes on a collaborator: the receiver, the method,
\* the arguments (name "" for a positional one) and the call's outcome.
Arg(v) == [name |-> "", val |-> v]
Kw(name, v) == [name |-> name, val |-> v]
Call(target, method, args, answer) ==
    [target |-> target, method |-> method, args |-> args, result |-> answer]

\* What a call on the connection can do: return a result or raise an error.
Answers(results) == {Return(z) : z \in results} \cup {Raise(e) : e \in ConnectionErrors}

\* ------------------------------------------------------------- hosted_zone
\* return self.connection.get_hosted_zone_by_id(self.zone_id)
hosted_zone(a, answer) ==
    [op |-> "hosted_zone",
     outcome |-> answer,
     calls |-> << Call(a.connection, "get_hosted_zone_by_id", << Arg(a.zone_id) >>, answer) >>]

HostedZone ==
    \E answer \in Answers(HostedZones) :
        /\ last' = hosted_zone(attrs, answer)
        /\ UNCHANGED <<rrset_type, attrs, initial_vals, heap, ctor, nAssign>>

\* ------------------------------------------------------------------ delete
\* The ChangeSet object that delete() constructs, and the action it passes.
NewChangeSet == PyObj("ChangeSet", 1)
DELETE == PyStr(<<"D", "E", "L", "E", "T", "E">>)

\* A delete() that retries the submission once when it fails.
delete_retrying(a, answer) ==
    [op |-> "delete",
     outcome |-> answer,
     calls |->
        << Call(NewChangeSet, "__init__",
                << Kw("connection", a.connection), Kw("hosted_zone_id", a.zone_id) >>,
                Return(NewChangeSet)),
           Call(NewChangeSet, "add_change", << Arg(DELETE), Arg(PySelf) >>, Return(PyNone)),
           Call(a.connection, "_change_resource_record_sets", << Arg(NewChangeSet) >>, answer) >>
        \o (IF answer.kind = "raise"
            THEN << Call(a.connection, "_change_resource_record_sets",
                         << Arg(NewChangeSet) >>, answer) >>
            ELSE <<>>)]

\* A delete() that scopes the ChangeSet to the record's name, not its zone.
delete_wrong_zone(a, answer) ==
    [op |-> "delete",
     outcome |-> answer,
     calls |->
        << Call(NewChangeSet, "__init__",
                << Kw("connection", a.connection), Kw("hosted_zone_id", a.name) >>,
                Return(NewChangeSet)),
           Call(NewChangeSet, "add_change", << Arg(DELETE), Arg(PySelf) >>, Return(PyNone)),
           Call(a.connection, "_change_resource_record_sets", << Arg(NewChangeSet) >>, answer) >>]

\* cset = ChangeSet(connection=self.connection, hosted_zone_id=self.zone_id)
\* cset.add_change('DELETE', self)
\* return self.connection._change_resource_record_sets(cset)
\* The two ChangeSet calls are taken to succeed; the submission's answer is
\* the connection's, and it is delete()'s own outcome.
delete(a, answer) ==
    [op |-> "delete",
     outcome |-> answer,
     calls |->
        << Call(NewChangeSet, "__init__",
                << Kw("connection", a.connection), Kw("hosted_zone_id", a.zone_id) >>,
                Return(NewChangeSet)),
           Call(NewChangeSet, "add_change", << Arg(DELETE), Arg(PySelf) >>, Return(PyNone)),
           Call(a.connection, "_change_resource_record_sets", << Arg(NewChangeSet) >>, answer) >>]

\* A delete() that empties the instance's records once the change is accepted.
Delete_clearing ==
    \E answer \in Answers(ChangeResponses) :
        /\ last' = delete(attrs, answer)
        /\ heap' = IF answer.kind = "return"
                   THEN [heap EXCEPT ![attrs.records.i] = <<>>]
                   ELSE heap
        /\ UNCHANGED <<rrset_type, attrs, initial_vals, ctor, nAssign>>

Delete ==
    \E answer \in Answers(ChangeResponses) :
        /\ last' = delete(attrs, answer)
        /\ UNCHANGED <<rrset_type, attrs, initial_vals, heap, ctor, nAssign>>

\* -------------------------------------------------------------------- save
\* save() is `pass`: it returns None and touches nothing.
Save ==
    /\ last' = Touched("save")
    /\ UNCHANGED <<rrset_type, attrs, initial_vals, heap, ctor, nAssign>>

Next ==
    \/ SetAttr
    \/ AssignRecords
    \/ RecordsAppend
    \/ RecordsPop
    \/ IsModified
    \/ IsAliasRecordSet
    \/ HostedZone
    \/ Delete
    \/ Save

Spec == Init /\ [][Next]_vars

\* ================================================================== claims
\* The field values now and the values the constructor arguments had.
Now(k) == Deep(heap, attrs[k])
Snapshot(n) == Deep(heap, initial_vals[n].val)
CtorArg(k) == DictGet(ctor.args, k)
FieldChanged == \E k \in DOMAIN attrs : Now(k) # ctor.attrs[k]

\* The calls of the last operation with the given method.
CallsOf(method) == SelectSeq(last.calls, LAMBDA c : c.method = method)

\* C1: is_modified() called right after construction, before any field is
\* assigned or edited, returns False.
C1_FreshIsNotModified ==
    (last.op = "is_modified" /\ nAssign = 0) => last.outcome = Return(PyBool(FALSE))

\* C2: is_modified() returns True whenever some captured field differs from
\* the value it had at construction.
C2_ChangedIsModified ==
    (last.op = "is_modified" /\ FieldChanged) => last.outcome = Return(PyBool(TRUE))

\* C3: when save() has returned, every entry of _initial_vals equals the
\* current value of the field it names.
C3_SaveRefreshesSnapshot ==
    last.op = "save" =>
        \A n \in 1..Len(initial_vals) : Snapshot(n) = Now(initial_vals[n].key)

\* C4: delete() constructs one ChangeSet with hosted_zone_id = self.zone_id,
\* adds to it exactly one change, ('DELETE', self), then passes that ChangeSet
\* to the connection's _change_resource_record_sets exactly once, as its last
\* call, and its outcome is that call's.
C4_DeleteSubmitsOneDeleteChange ==
    last.op = "delete" =>
        LET made == CallsOf("__init__")
            added == CallsOf("add_change")
            sent == CallsOf("_change_resource_record_sets")
        IN  /\ Len(made) = 1 /\ Len(added) = 1 /\ Len(sent) = 1
            /\ Len(last.calls) = 3
            /\ made[1].target.t = "ChangeSet"
            /\ Kw("hosted_zone_id", attrs.zone_id) \in {made[1].args[n] : n \in 1..Len(made[1].args)}
            /\ added[1].target = made[1].target
            /\ added[1].args = << Arg(DELETE), Arg(PySelf) >>
            /\ last.calls[3] = sent[1]
            /\ sent[1].target = attrs.connection
            /\ sent[1].args = << Arg(made[1].target) >>
            /\ last.outcome = sent[1].result

C4_Witness ==
    /\ last.op = "delete"
    /\ last.outcome = Return(PyObj("ChangeInfo", 1))
    /\ attrs.zone_id = PyStr(<<"Z", "2">>)

\* C5: every value held in _initial_vals equals the value the constructor
\* argument of that name had at construction.
C5_SnapshotKeepsConstructionValues ==
    \A n \in 1..Len(initial_vals) : Snapshot(n) = CtorArg(initial_vals[n].key)

\* C6: right after construction, ttl is None when the argument was 0 or
\* None, and is the argument when that was a positive integer.
C6_TtlNormalised ==
    last.op = "__init__" =>
        /\ CtorArg("ttl").val \in {PyNone, PyInt(0)} => attrs.ttl = PyNone
        /\ (CtorArg("ttl").val.t = "int" /\ CtorArg("ttl").val.i > 0)
              => attrs.ttl = CtorArg("ttl").val

C6_Witness ==
    /\ last.op = "__init__"
    /\ rrset_type = "MX"
    /\ CtorArg("ttl").val = PyInt(0)
    /\ attrs.ttl = PyNone

\* C7: on an A instance, is_alias_record_set() returns the bool True when
\* alias_hosted_zone_id or alias_dns_name is non-empty and the bool False
\* when both are empty or None.
C7_AliasAnswerIsBool ==
    (last.op = "is_alias_record_set" /\ rrset_type = "A") =>
        last.outcome = Return(PyBool(Truthy(heap, attrs.alias_hosted_zone_id)
                                     \/ Truthy(heap, attrs.alias_dns_name)))

\* C8: on an instance of any class but A, is_alias_record_set() returns
\* False, whatever the field values.
C8_NonAIsNeverAlias ==
    (last.op = "is_alias_record_set" /\ rrset_type \in RRsetTypes \ {"A"}) =>
        last.outcome = Return(PyBool(FALSE))

C8_Witness ==
    /\ last.op = "is_alias_record_set"
    /\ rrset_type = "TXT"
    /\ attrs.ttl = PyNone
    /\ heap[attrs.records.i] = <<>>
    /\ last.outcome = Return(PyBool(FALSE))

\* C9: when the connection's call fails during hosted_zone or delete(), the
\* caller gets exactly that error, the connection was called exactly once,
\* and the fields, the list objects and _initial_vals are as before the call.
C9_ConnectionErrorPropagates ==
    [][ LET sent == SelectSeq(last'.calls, LAMBDA c : c.target.t = "Route53Connection")
        IN  (/\ last'.op \in {"hosted_zone", "delete"}
             /\ \E n \in 1..Len(sent) : sent[n].result.kind = "raise")
            => /\ Len(sent) = 1
               /\ last'.outcome = sent[1].result
               /\ attrs' = attrs
               /\ heap' = heap
               /\ initial_vals' = initial_vals ]_vars

C9_Witness ==
    /\ last.op = "delete"
    /\ last.outcome = Raise("IOError")
    /\ nAssign > 0

\* C10: a delete() that succeeds changes no field, no list object, not the
\* class and not _initial_vals, and is_modified() and is_alias_record_set()
\* answer after it as they did before it.
C10_DeleteChangesNothingLocal ==
    [][ (last'.op = "delete" /\ last'.outcome.kind = "return")
        => /\ attrs' = attrs
           /\ heap' = heap
           /\ initial_vals' = initial_vals
           /\ rrset_type' = rrset_type
           /\ is_modified(heap', attrs', initial_vals')
                = is_modified(heap, attrs, initial_vals)
           /\ is_alias_record_set(rrset_type', heap', attrs')
                = is_alias_record_set(rrset_type, heap, attrs) ]_vars

C10_Witness ==
    /\ last.op = "delete"
    /\ last.outcome.kind = "return"
    /\ rrset_type = "A"
    /\ heap[attrs.records.i] # <<>>
    /\ nAssign > 0
====
